---- MODULE Spec2Model ----
(***************************************************************************)
(* METAR lamp (src/main.py, src/config.py): report parsing, flight         *)
(* category classification, day/night brightness and the refresh loop.     *)
(*                                                                         *)
(* Representation.  A Python string is a sequence of one-character         *)
(* strings, a token list a sequence of such sequences.  Python's None is   *)
(* the empty sequence, an int result that may be None is <<n>>, a float is *)
(* the exact rational <<num, den>> in lowest terms with den > 0.           *)
(***************************************************************************)
EXTENDS Integers, Sequences, FiniteSets, TLC

None == <<>>

Digits == {"0", "1", "2", "3", "4", "5", "6", "7", "8", "9"}

Min(a, b) == IF a <= b THEN a ELSE b

Abs(a) == IF a < 0 THEN -a ELSE a

RECURSIVE Gcd(_, _)
Gcd(a, b) == IF b = 0 THEN a ELSE Gcd(b, a % b)

RECURSIVE Pow10(_)
Pow10(k) == IF k = 0 THEN 1 ELSE 10 * Pow10(k - 1)

(* ---------------- Python str methods ---------------- *)

\* s[a:b] with 0 <= a, Python clamping (0-based, b exclusive)
Slice(s, a, b) == SubSeq(s, a + 1, Min(b, Len(s)))

\* s[a:]
SliceFrom(s, a) == SubSeq(s, a + 1, Len(s))

startswith(s, p) == Len(s) >= Len(p) /\ SubSeq(s, 1, Len(p)) = p

endswith(s, p) == Len(s) >= Len(p) /\ SubSeq(s, Len(s) - Len(p) + 1, Len(s)) = p

\* 1-based positions at which sub occurs in s
Occurrences(s, sub) ==
    {i \in 1..(Len(s) - Len(sub) + 1) : SubSeq(s, i, i + Len(sub) - 1) = sub}

\* sub in s
contains(s, sub) == Occurrences(s, sub) /= {}

\* position of the first occurrence (only used when there is one)
find(s, sub) == CHOOSE i \in Occurrences(s, sub) : \A j \in Occurrences(s, sub) : i <= j

\* position of the last occurrence
rfind(s, sub) == CHOOSE i \in Occurrences(s, sub) : \A j \in Occurrences(s, sub) : i >= j

\* s.replace(sub, ""): non-overlapping occurrences removed left to right
RECURSIVE remove(_, _)
remove(s, sub) ==
    IF ~contains(s, sub) THEN s
    ELSE LET i == find(s, sub)
         IN SubSeq(s, 1, i - 1) \o remove(SubSeq(s, i + Len(sub), Len(s)), sub)

\* s.split(sep, 1) when sep occurs in s: <<before, after>>
split1(s, sep) ==
    LET i == find(s, sep)
    IN <<SubSeq(s, 1, i - 1), SubSeq(s, i + Len(sep), Len(s))>>

\* s.rsplit(sep, 1)[0] when sep occurs in s
rsplit1_head(s, sep) == SubSeq(s, 1, rfind(s, sep) - 1)

\* s.split(sep): all the pieces
RECURSIVE split(_, _)
split(s, sep) ==
    IF ~contains(s, sep) THEN <<s>>
    ELSE LET p == split1(s, sep) IN <<p[1]>> \o split(p[2], sep)

\* s.isdigit(): non-empty and every character a digit
isdigit(s) == Len(s) > 0 /\ \A i \in 1..Len(s) : s[i] \in Digits

DigitVal(c) ==
    CASE c = "0" -> 0 [] c = "1" -> 1 [] c = "2" -> 2 [] c = "3" -> 3
      [] c = "4" -> 4 [] c = "5" -> 5 [] c = "6" -> 6 [] c = "7" -> 7
      [] c = "8" -> 8 [] c = "9" -> 9

\* value of a digit string (0 for the empty string)
RECURSIVE NatVal(_)
NatVal(s) ==
    IF Len(s) = 0 THEN 0
    ELSE 10 * NatVal(SubSeq(s, 1, Len(s) - 1)) + DigitVal(s[Len(s)])

HasSign(s) == Len(s) > 0 /\ s[1] \in {"+", "-"}

Unsigned(s) == IF HasSign(s) THEN Tail(s) ELSE s

Sign(s) == IF Len(s) > 0 /\ s[1] = "-" THEN -1 ELSE 1

\* int(s) succeeds: optional sign, then digits
int_ok(s) == isdigit(Unsigned(s))

\* int(s), when int_ok(s)
int(s) == Sign(s) * NatVal(Unsigned(s))

(* ---------------- floats as exact rationals ---------------- *)

Rat(n, d) ==
    LET g == Gcd(Abs(n), Abs(d))
        sg == IF d < 0 THEN -1 ELSE 1
    IN <<sg * (n \div g), sg * (d \div g)>>

RAdd(x, y) == Rat(x[1] * y[2] + y[1] * x[2], x[2] * y[2])

\* x / y, y nonzero
RDiv(x, y) == Rat(x[1] * y[2], x[2] * y[1])

RLt(x, y) == x[1] * y[2] < y[1] * x[2]

RLe(x, y) == x[1] * y[2] <= y[1] * x[2]

\* float(s) succeeds: optional sign, then digits, digits "." [digits] or "." digits
float_ok(s) ==
    LET u == Unsigned(s)
    IN IF contains(u, <<".">>)
       THEN LET p == split1(u, <<".">>)
            IN /\ Len(p[1]) + Len(p[2]) > 0
               /\ \A i \in 1..Len(p[1]) : p[1][i] \in Digits
               /\ \A i \in 1..Len(p[2]) : p[2][i] \in Digits
       ELSE isdigit(u)

\* float(s), when float_ok(s)
float(s) ==
    LET u == Unsigned(s)
    IN IF contains(u, <<".">>)
       THEN LET p == split1(u, <<".">>)
            IN Rat(Sign(s) * (NatVal(p[1]) * Pow10(Len(p[2])) + NatVal(p[2])),
                   Pow10(Len(p[2])))
       ELSE Rat(Sign(s) * NatVal(u), 1)

Zero == Rat(0, 1)

(* ---------------- src/main.py: report parsing ---------------- *)

SM == <<"S", "M">>

KT == <<"K", "T">>

VRB == <<"V", "R", "B">>

BKN == <<"B", "K", "N">>

OVC == <<"O", "V", "C">>

VV == <<"V", "V">>

TS == <<"T", "S">>

VCTS == <<"V", "C", "T", "S">>

LTG == <<"L", "T", "G">>

\* float(num) / float(den) under try/except: 0.0 on a parse error or a zero divisor
FractionOrZero(num, den) ==
    IF float_ok(num) /\ float_ok(den) /\ float(den)[1] /= 0
    THEN RDiv(float(num), float(den))
    ELSE Zero

\* the body of the loop of parse_visibility_sm for the SM token at position i
VisibilityOfToken(tokens, i) ==
    LET tok == tokens[i]
        raw0 == remove(tok, SM)
        greater == startswith(raw0, <<"P">>)
        less_than == startswith(raw0, <<"M">>)
        raw == IF greater \/ less_than THEN SliceFrom(raw0, 1) ELSE raw0
        prev == IF i > 1 THEN tokens[i - 1] ELSE <<>>
        hasSlash == contains(raw, <<"/">>)
        whole == IF hasSlash /\ isdigit(prev) THEN float(prev)
                 ELSE IF hasSlash THEN Zero
                 ELSE IF raw /= <<>> /\ float_ok(raw) THEN float(raw)
                 ELSE Zero
        frac == IF hasSlash
                THEN LET p == split1(raw, <<"/">>) IN FractionOrZero(p[1], p[2])
                ELSE Zero
        value == RAdd(whole, frac)
        v1 == IF greater /\ RLe(value, Zero) THEN Rat(10, 1) ELSE value
        v2 == IF less_than /\ RLe(v1, Zero) THEN Rat(1, 4) ELSE v1
    IN v2

\* parse_visibility_sm without the break: the last SM token decides
parse_visibility_sm_last(tokens) ==
    LET hits == {i \in 1..Len(tokens) : contains(tokens[i], SM)}
    IN IF hits = {} THEN None
       ELSE VisibilityOfToken(tokens, CHOOSE i \in hits : \A j \in hits : i >= j)

\* parse_visibility_sm(tokens): float (SM) or None
parse_visibility_sm(tokens) ==
    LET hits == {i \in 1..Len(tokens) : contains(tokens[i], SM)}
    IN IF hits = {} THEN None
       ELSE VisibilityOfToken(tokens, CHOOSE i \in hits : \A j \in hits : i <= j)

\* parse_ceiling_ft(tokens): <<feet>> or None; the loop, token by token
RECURSIVE CeilingLoop(_, _, _)
CeilingLoop(tokens, i, ceiling_ft) ==
    IF i > Len(tokens) THEN ceiling_ft
    ELSE LET tok == tokens[i]
             height_part == Slice(tok, 3, 6)
             layer == /\ (startswith(tok, BKN) \/ startswith(tok, OVC) \/ startswith(tok, VV))
                      /\ Len(tok) >= 6
                      /\ isdigit(height_part)
             h == NatVal(height_part) * 100
         IN CeilingLoop(tokens, i + 1,
                IF layer /\ (ceiling_ft = None \/ h < ceiling_ft[1])
                THEN <<h>> ELSE ceiling_ft)

parse_ceiling_ft(tokens) == CeilingLoop(tokens, 1, None)

\* the condition of the if in the loop of parse_wind
WindToken(tok) ==
    /\ endswith(tok, KT)
    /\ (contains(tok, <<"G">>) \/ isdigit(Slice(tok, 0, 3)) \/ startswith(tok, VRB))

\* parse_wind looking for the gust marker in the whole token
parse_wind_gust_in_token(tokens) ==
    LET hits == {i \in 1..Len(tokens) : WindToken(tokens[i])}
    IN IF hits = {} THEN <<0, FALSE>>
       ELSE LET tok == tokens[CHOOSE i \in hits : \A j \in hits : i <= j]
                body == SliceFrom(SubSeq(tok, 1, Len(tok) - 2), 3)
                gust == contains(tok, <<"G">>)
                spd == IF contains(body, <<"G">>) THEN split1(body, <<"G">>)[1] ELSE body
            IN <<IF int_ok(spd) THEN int(spd) ELSE 0, gust>>

\* parse_wind(tokens): <<sustained_knots, has_gusts>>
parse_wind(tokens) ==
    LET hits == {i \in 1..Len(tokens) : WindToken(tokens[i])}
    IN IF hits = {} THEN <<0, FALSE>>
       ELSE LET tok == tokens[CHOOSE i \in hits : \A j \in hits : i <= j]
                body == SliceFrom(SubSeq(tok, 1, Len(tok) - 2), 3)
                gust == contains(body, <<"G">>)
                spd == IF gust THEN split1(body, <<"G">>)[1] ELSE body
            IN <<IF int_ok(spd) THEN int(spd) ELSE 0, gust>>

\* has_lightning_from_metar on the report whose tokens these are: none of the
\* three substrings holds a blank, so each occurrence lies inside one token
has_lightning_from_metar(tokens) ==
    \E i \in 1..Len(tokens) :
        contains(tokens[i], TS) \/ contains(tokens[i], VCTS) \/ contains(tokens[i], LTG)

CEILING_UNLIMITED == 99999

\* classify_flight_category with the MVFR bounds exclusive
classify_flight_category_exclusive(ceiling_ft, visibility_sm) ==
    LET vis == IF visibility_sm = None THEN Rat(10, 1) ELSE visibility_sm
        ceil == IF ceiling_ft = None THEN 99999 ELSE ceiling_ft[1]
    IN IF ceil < 500 \/ RLt(vis, Rat(1, 1)) THEN "LIFR"
       ELSE IF ceil < 1000 \/ RLt(vis, Rat(3, 1)) THEN "IFR"
       ELSE IF ceil < 3000 \/ RLt(vis, Rat(5, 1)) THEN "MVFR"
       ELSE "VFR"

\* classify_flight_category with a missing ceiling taken as 0 ft
classify_flight_category_zero_ceiling(ceiling_ft, visibility_sm) ==
    LET vis == IF visibility_sm = None THEN Rat(10, 1) ELSE visibility_sm
        ceil == IF ceiling_ft = None THEN 0 ELSE ceiling_ft[1]
    IN IF ceil < 500 \/ RLt(vis, Rat(1, 1)) THEN "LIFR"
       ELSE IF ceil < 1000 \/ RLt(vis, Rat(3, 1)) THEN "IFR"
       ELSE IF ceil <= 3000 \/ RLe(vis, Rat(5, 1)) THEN "MVFR"
       ELSE "VFR"

\* classify_flight_category(ceiling_ft, visibility_sm)
classify_flight_category(ceiling_ft, visibility_sm) ==
    LET vis == IF visibility_sm = None THEN Rat(10, 1) ELSE visibility_sm
        ceil == IF ceiling_ft = None THEN CEILING_UNLIMITED ELSE ceiling_ft[1]
    IN IF ceil < 500 \/ RLt(vis, Rat(1, 1)) THEN "LIFR"
       ELSE IF ceil < 1000 \/ RLt(vis, Rat(3, 1)) THEN "IFR"
       ELSE IF ceil <= 3000 \/ RLe(vis, Rat(5, 1)) THEN "MVFR"
       ELSE "VFR"


(* ---------------- src/config.py ---------------- *)

\* UPDATE_INTERVAL_SECONDS = 300
UPDATE_INTERVAL_SECONDS == 300

\* SUN_TIMES_REFRESH_SECONDS = 6 * 60 * 60
SUN_TIMES_REFRESH_SECONDS == 6 * 60 * 60

\* DAY_BRIGHTNESS = 0.7, NIGHT_BRIGHTNESS = 0.2, in hundredths
DAY_BRIGHTNESS == 70

NIGHT_BRIGHTNESS == 20

\* GUST_BREATH_MIN = 0.6, GUST_BREATH_MAX = 1.0, in hundredths
GUST_BREATH_MIN == 60

GUST_BREATH_MAX == 100

\* LIGHTNING_BRIGHTNESS = 0.6, in hundredths
LIGHTNING_BRIGHTNESS == 60

ENABLE_GUST_BREATHING == TRUE

ENABLE_LIGHTNING_EFFECT == TRUE

COLOR_VFR == <<0, 255, 0>>

COLOR_MVFR == <<0, 0, 255>>

COLOR_IFR == <<255, 0, 0>>

COLOR_LIFR == <<255, 0, 255>>

COLOR_UNKNOWN == <<255, 255, 255>>

SECONDS_PER_DAY == 86400

(* ---------------- state ---------------- *)

VARIABLES
    pc,                 \* position in main(), or the stage of a function under check
    clock,              \* time.time(): the RTC, whole seconds
    now,                \* main's local `now`
    USE_SUN_TIMES,      \* config.USE_SUN_TIMES
    UTC_OFFSET_HOURS,   \* int(config.UTC_OFFSET_HOURS)
    last_metar_update,
    last_sun_update,
    flight_category,
    has_gusts,
    has_lightning,
    sustained_wind_kt,
    sunrise_sec_local,
    sunset_sec_local,
    metar,              \* update_metar_state's `metar`, as its tokens; None when the fetch failed
    vis_sm,             \* update_metar_state's `vis_sm`
    ceil_ft,            \* update_metar_state's `ceil_ft`
    sun_data,           \* update_sun_times' `data`: the last response of the sun API
    np,                 \* the LED ring as written: <<fill colour, flash colour or None>>
    brightness,         \* the value current_brightness() returned last
    iterations,         \* passes of main's while loop begun
    frames,             \* animate_frame calls made by the loop
    sun_tried,          \* this pass of the loop called update_sun_times
    metar_tried,        \* this pass of the loop called update_metar_state
    sun_retry,          \* the last update_sun_times of the loop returned without a result
    metar_retry         \* the last update_metar_state of the loop returned without a report

config == <<USE_SUN_TIMES, UTC_OFFSET_HOURS>>

snapshot == <<flight_category, has_gusts, has_lightning, sustained_wind_kt, last_metar_update>>

sun_times == <<sunrise_sec_local, sunset_sec_local, last_sun_update>>

metar_locals == <<metar, vis_sm, ceil_ft>>

loop_state == <<iterations, frames, sun_tried, metar_tried, sun_retry, metar_retry>>

vars == <<pc, clock, now, config, snapshot, sun_times, metar_locals, sun_data, np,
          brightness, loop_state>>

(* ---------------- sun times ---------------- *)

T == <<"T">>

\* hh, mm, ss = time_part.split(":"); int() of each; any exception gives 0
HmsOrZero(time_part) ==
    LET parts == split(time_part, <<":">>)
    IN IF Len(parts) = 3 /\ \A i \in 1..3 : int_ok(parts[i])
       THEN int(parts[1]) * 3600 + int(parts[2]) * 60 + int(parts[3])
       ELSE 0

\* iso_time_to_seconds_since_midnight(iso_str)
iso_time_to_seconds_since_midnight(iso_str) ==
    IF ~contains(iso_str, T) THEN 0
    ELSE LET t0 == split1(iso_str, T)[2]
             t1 == IF contains(t0, <<"+">>) THEN split1(t0, <<"+">>)[1]
                   ELSE IF contains(t0, <<"-">>) THEN rsplit1_head(t0, <<"-">>)
                   ELSE t0
             t2 == remove(t1, <<"Z">>)
             t3 == IF contains(t2, <<".">>) THEN split1(t2, <<".">>)[1] ELSE t2
         IN HmsOrZero(t3)

\* a response of http_get_json: None, or the JSON object; has_results says whether
\* it has the key "results", sunrise and sunset are results.get(...) (None if absent)
NoData == [ok |-> FALSE, has_results |-> FALSE, sunrise |-> None, sunset |-> None]

SunResults(sr, ss) == [ok |-> TRUE, has_results |-> TRUE, sunrise |-> sr, sunset |-> ss]

NoResults == [ok |-> TRUE, has_results |-> FALSE, sunrise |-> None, sunset |-> None]

\* update_sun_times returns at one of its two early returns for this response
SunEarlyReturn(data) ==
    \/ ~data.ok \/ ~data.has_results
    \/ data.sunrise = <<>> \/ data.sunset = <<>>

\* update_sun_times stamping last_sun_update before it looks at the response
update_sun_times_stamp_first(data, d) ==
    IF ~USE_SUN_TIMES
    THEN UNCHANGED <<clock, sun_times, sun_data>>
    ELSE /\ clock' = clock + d
         /\ sun_data' = data
         /\ last_sun_update' = clock'
         /\ IF SunEarlyReturn(data)
            THEN UNCHANGED <<sunrise_sec_local, sunset_sec_local>>
            ELSE LET sr_utc == iso_time_to_seconds_since_midnight(data.sunrise)
                     ss_utc == iso_time_to_seconds_since_midnight(data.sunset)
                 IN /\ sunrise_sec_local' = (sr_utc + UTC_OFFSET_HOURS * 3600) % SECONDS_PER_DAY
                    /\ sunset_sec_local' = (ss_utc + UTC_OFFSET_HOURS * 3600) % SECONDS_PER_DAY

\* update_sun_times(), given the response of the sun API and the seconds the call blocks
update_sun_times(data, d) ==
    IF ~USE_SUN_TIMES
    THEN UNCHANGED <<clock, sun_times, sun_data>>
    ELSE /\ clock' = clock + d
         /\ sun_data' = data
         /\ IF SunEarlyReturn(data)
            THEN UNCHANGED sun_times
            ELSE LET sr_utc == iso_time_to_seconds_since_midnight(data.sunrise)
                     ss_utc == iso_time_to_seconds_since_midnight(data.sunset)
                 IN /\ sunrise_sec_local' = (sr_utc + UTC_OFFSET_HOURS * 3600) % SECONDS_PER_DAY
                    /\ sunset_sec_local' = (ss_utc + UTC_OFFSET_HOURS * 3600) % SECONDS_PER_DAY
                    /\ last_sun_update' = clock'

\* get_local_seconds_of_day(): time.localtime() is the RTC's UTC time of day
get_local_seconds_of_day ==
    ((clock % SECONDS_PER_DAY) + UTC_OFFSET_HOURS * 3600) % SECONDS_PER_DAY

\* current_brightness with the wrap-around test joined by "and"
current_brightness_and ==
    IF ~USE_SUN_TIMES
    THEN LET h0 == ((clock % SECONDS_PER_DAY) \div 3600) + UTC_OFFSET_HOURS
             hour == IF h0 < 0 THEN h0 + 24 ELSE IF h0 >= 24 THEN h0 - 24 ELSE h0
         IN IF 7 <= hour /\ hour < 20 THEN DAY_BRIGHTNESS ELSE NIGHT_BRIGHTNESS
    ELSE LET sec == get_local_seconds_of_day
         IN IF sunrise_sec_local < sunset_sec_local
            THEN IF sunrise_sec_local <= sec /\ sec < sunset_sec_local
                 THEN DAY_BRIGHTNESS ELSE NIGHT_BRIGHTNESS
            ELSE IF sec >= sunrise_sec_local /\ sec < sunset_sec_local
                 THEN DAY_BRIGHTNESS ELSE NIGHT_BRIGHTNESS

\* current_brightness()
current_brightness ==
    IF ~USE_SUN_TIMES
    THEN LET h0 == ((clock % SECONDS_PER_DAY) \div 3600) + UTC_OFFSET_HOURS
             hour == IF h0 < 0 THEN h0 + 24 ELSE IF h0 >= 24 THEN h0 - 24 ELSE h0
         IN IF 7 <= hour /\ hour < 20 THEN DAY_BRIGHTNESS ELSE NIGHT_BRIGHTNESS
    ELSE LET sec == get_local_seconds_of_day
         IN IF sunrise_sec_local < sunset_sec_local
            THEN IF sunrise_sec_local <= sec /\ sec < sunset_sec_local
                 THEN DAY_BRIGHTNESS ELSE NIGHT_BRIGHTNESS
            ELSE IF sec >= sunrise_sec_local \/ sec < sunset_sec_local
                 THEN DAY_BRIGHTNESS ELSE NIGHT_BRIGHTNESS

(* ---------------- METAR state ---------------- *)

\* a response of http_get_text: ok is FALSE when the request raised; text is the
\* last line of the stripped body, as its tokens (no token: the body was blank)
NoText == [ok |-> FALSE, text |-> <<>>]

Text(tokens) == [ok |-> TRUE, text |-> tokens]

\* fetch_metar(icao): the report as its tokens, or None
fetch_metar(resp) == IF ~resp.ok \/ resp.text = <<>> THEN None ELSE resp.text

\* update_metar_state with a failed fetch resetting the category
update_metar_state_reset(resp, d) ==
    LET m == fetch_metar(resp)
    IN /\ clock' = clock + d
       /\ metar' = m
       /\ IF m = None
          THEN /\ flight_category' = "UNKNOWN"
               /\ UNCHANGED <<has_gusts, has_lightning, sustained_wind_kt,
                              last_metar_update, vis_sm, ceil_ft>>
          ELSE LET wind == parse_wind(m)
               IN /\ vis_sm' = parse_visibility_sm(m)
                  /\ ceil_ft' = parse_ceiling_ft(m)
                  /\ sustained_wind_kt' = wind[1]
                  /\ flight_category' = classify_flight_category(ceil_ft', vis_sm')
                  /\ has_gusts' = wind[2]
                  /\ has_lightning' = has_lightning_from_metar(m)
                  /\ last_metar_update' = clock'

\* update_metar_state(), given the response of the METAR server and the seconds
\* the call blocks
update_metar_state(resp, d) ==
    LET m == fetch_metar(resp)
    IN /\ clock' = clock + d
       /\ metar' = m
       /\ IF m = None
          THEN UNCHANGED <<snapshot, vis_sm, ceil_ft>>
          ELSE LET wind == parse_wind(m)
               IN /\ vis_sm' = parse_visibility_sm(m)
                  /\ ceil_ft' = parse_ceiling_ft(m)
                  /\ sustained_wind_kt' = wind[1]
                  /\ flight_category' = classify_flight_category(ceil_ft', vis_sm')
                  /\ has_gusts' = wind[2]
                  /\ has_lightning' = has_lightning_from_metar(m)
                  /\ last_metar_update' = clock'


(* ---------------- LED ring ---------------- *)

\* get_base_color_for_category(cat)
get_base_color_for_category(cat) ==
    IF cat = "VFR" THEN COLOR_VFR
    ELSE IF cat = "MVFR" THEN COLOR_MVFR
    ELSE IF cat = "IFR" THEN COLOR_IFR
    ELSE IF cat = "LIFR" THEN COLOR_LIFR
    ELSE COLOR_UNKNOWN

\* apply_brightness_to_color(color, brightness): int() of each product;
\* the channels are in hundredths, the brightness in ten-thousandths
apply_brightness_to_color(color100, bright) ==
    [i \in 1..3 |-> (color100[i] * bright) \div 1000000]

Black == <<0, 0, 0>>

DimRed == <<50, 0, 0>>

\* the eased phase raw ** 2.5 of the breathing sine, in hundredths: its two
\* extremes
EasedPhases == {0, 100}

\* animate_frame(), given the eased breathing phase and whether random.random()
\* fell under LIGHTNING_FREQUENCY; which LEDs flash is not kept
animate_frame(eased, flash) ==
    LET base_color == get_base_color_for_category(flight_category)
        base_brightness == current_brightness
        span == GUST_BREATH_MAX - GUST_BREATH_MIN
        breath_factor == GUST_BREATH_MIN + (span * eased) \div 100
        bright == IF ENABLE_GUST_BREATHING /\ has_gusts
                  THEN base_brightness * breath_factor
                  ELSE base_brightness * 100
        rgb == apply_brightness_to_color([i \in 1..3 |-> base_color[i] * 100], bright)
        white == apply_brightness_to_color([i \in 1..3 |-> 255 * LIGHTNING_BRIGHTNESS], bright)
    IN /\ brightness' = base_brightness
       /\ np' = <<rgb, IF ENABLE_LIGHTNING_EFFECT /\ has_lightning /\ flash
                       THEN white ELSE None>>

(* ---------------- inputs of the main program ---------------- *)

ISO_SUNRISE == <<"2", "0", "2", "5", "-", "1", "1", "-", "2", "9", "T", "1", "3", ":", "0", "5", ":", "2", "3", "+", "0", "0", ":", "0", "0">>

ISO_SUNSET == <<"2", "0", "2", "5", "-", "1", "1", "-", "2", "9", "T", "2", "3", ":", "1", "0", ":", "0", "0", ".", "5", "Z">>

ISO_NO_TIME == <<"2", "0", "2", "5", "-", "1", "1", "-", "2", "9">>

ISO_SHORT_TIME == <<"2", "0", "2", "5", "-", "1", "1", "-", "2", "9", "T", "1", "3", ":", "0", "5">>

SunResponses ==
    {NoData, NoResults, SunResults(ISO_SUNRISE, None),
     SunResults(ISO_SUNRISE, ISO_SUNSET), SunResults(ISO_NO_TIME, ISO_SHORT_TIME)}

METAR_STORM ==
    <<<<"K", "S", "L", "G">>,
      <<"2", "9", "1", "2", "5", "3", "Z">>,
      <<"1", "8", "0", "1", "2", "G", "2", "0", "K", "T">>,
      <<"1", "0", "S", "M">>,
      <<"B", "K", "N", "0", "0", "8">>,
      <<"O", "V", "C", "0", "1", "5">>,
      <<"T", "S", "R", "A">>>>

METAR_CLEAR ==
    <<<<"K", "S", "L", "G">>,
      <<"2", "9", "1", "3", "5", "3", "Z">>,
      <<"0", "9", "0", "0", "5", "K", "T">>,
      <<"P", "6", "S", "M">>,
      <<"C", "L", "R">>>>

METAR_FOG ==
    <<<<"K", "S", "L", "G">>,
      <<"2", "9", "1", "4", "5", "3", "Z">>,
      <<"V", "R", "B", "0", "3", "K", "T">>,
      <<"1">>,
      <<"1", "/", "2", "S", "M">>,
      <<"V", "V", "0", "0", "2">>>>

MetarResponses == {NoText, Text(<<>>), Text(METAR_STORM), Text(METAR_CLEAR), Text(METAR_FOG)}

\* bound: passes of the main loop
MaxIterations == 3

\* seconds the RTC may advance while a request blocks
FetchSeconds == {1}

\* seconds the RTC may advance between two passes of the loop
SleepSeconds == {0, UPDATE_INTERVAL_SECONDS + 1, SUN_TIMES_REFRESH_SECONDS + 1}

\* the RTC after a successful ntptime.settime()
NtpClocks == {30000}

OffsetChoices == {-6}

(* ---------------- main() ---------------- *)

SnapshotInit ==
    /\ last_metar_update = 0
    /\ flight_category = "UNKNOWN"
    /\ has_gusts = FALSE
    /\ has_lightning = FALSE
    /\ sustained_wind_kt = 0

SunTimesInit ==
    /\ last_sun_update = 0
    /\ sunrise_sec_local = 6 * 3600
    /\ sunset_sec_local = 18 * 3600

MetarLocalsInit ==
    /\ metar = None
    /\ vis_sm = None
    /\ ceil_ft = None

LoopInit ==
    /\ now = 0
    /\ sun_data = NoData
    /\ np = <<Black, None>>
    /\ iterations = 0
    /\ frames = 0
    /\ sun_tried = FALSE
    /\ metar_tried = FALSE
    /\ sun_retry = FALSE
    /\ metar_retry = FALSE

Init ==
    /\ pc = "connect_wifi"
    /\ clock = 0
    /\ USE_SUN_TIMES \in BOOLEAN
    /\ UTC_OFFSET_HOURS \in OffsetChoices
    /\ SnapshotInit
    /\ SunTimesInit
    /\ MetarLocalsInit
    /\ LoopInit
    /\ brightness = 0

\* connect_wifi() returned with the link up
WifiUp ==
    /\ pc = "connect_wifi"
    /\ pc' = "sync_time"
    /\ UNCHANGED <<clock, now, config, snapshot, sun_times, metar_locals, sun_data, np,
                   brightness, loop_state>>

\* connect_wifi() gave up: main flashes red for ever
WifiDown ==
    /\ pc = "connect_wifi"
    /\ pc' = "flash_red"
    /\ UNCHANGED <<clock, now, config, snapshot, sun_times, metar_locals, sun_data, np,
                   brightness, loop_state>>

FlashRed ==
    /\ pc = "flash_red"
    /\ np' = <<DimRed, None>>
    /\ pc' = "flash_off"
    /\ UNCHANGED <<clock, now, config, snapshot, sun_times, metar_locals, sun_data,
                   brightness, loop_state>>

FlashOff ==
    /\ pc = "flash_off"
    /\ np' = <<Black, None>>
    /\ pc' = "flash_red"
    /\ UNCHANGED <<clock, now, config, snapshot, sun_times, metar_locals, sun_data,
                   brightness, loop_state>>

\* sync_time(): the RTC is set from NTP, or left alone when that raises
SyncTime ==
    /\ pc = "sync_time"
    /\ \E t \in NtpClocks \cup {clock} : clock' = t
    /\ pc' = "start_sun"
    /\ UNCHANGED <<now, config, snapshot, sun_times, metar_locals, sun_data, np,
                   brightness, loop_state>>

\* main: the first update_sun_times()
StartSun ==
    /\ pc = "start_sun"
    /\ \E data \in SunResponses, d \in FetchSeconds : update_sun_times(data, d)
    /\ pc' = "start_metar"
    /\ UNCHANGED <<now, config, snapshot, metar_locals, np, brightness, loop_state>>

\* main: the first update_metar_state()
StartMetar ==
    /\ pc = "start_metar"
    /\ \E resp \in MetarResponses, d \in FetchSeconds : update_metar_state(resp, d)
    /\ pc' = "loop_sun"
    /\ UNCHANGED <<now, config, sun_times, sun_data, np, brightness, loop_state>>

SunDue(t) == USE_SUN_TIMES /\ (t - last_sun_update) > SUN_TIMES_REFRESH_SECONDS

MetarDue(t) == (t - last_metar_update) > UPDATE_INTERVAL_SECONDS

\* loop: now = time.time(); the sun times are due and update_sun_times() is called
LoopSunRefresh ==
    /\ pc = "loop_sun"
    /\ iterations < MaxIterations
    /\ now' = clock
    /\ SunDue(now')
    /\ \E data \in SunResponses, d \in FetchSeconds :
          /\ update_sun_times(data, d)
          /\ sun_retry' = SunEarlyReturn(data)
    /\ sun_tried' = TRUE
    /\ iterations' = iterations + 1
    /\ pc' = "loop_metar"
    /\ UNCHANGED <<config, snapshot, metar_locals, np, brightness, frames, metar_tried,
                   metar_retry>>

\* loop: now = time.time(); the sun times are not due
LoopSunSkip ==
    /\ pc = "loop_sun"
    /\ iterations < MaxIterations
    /\ now' = clock
    /\ ~SunDue(now')
    /\ sun_tried' = FALSE
    /\ iterations' = iterations + 1
    /\ pc' = "loop_metar"
    /\ UNCHANGED <<clock, config, snapshot, sun_times, metar_locals, sun_data, np,
                   brightness, frames, metar_tried, sun_retry, metar_retry>>

\* loop: the METAR is due and update_metar_state() is called
LoopMetarRefresh ==
    /\ pc = "loop_metar"
    /\ MetarDue(now)
    /\ \E resp \in MetarResponses, d \in FetchSeconds :
          /\ update_metar_state(resp, d)
          /\ metar_retry' = (fetch_metar(resp) = None)
    /\ metar_tried' = TRUE
    /\ pc' = "loop_frame"
    /\ UNCHANGED <<now, config, sun_times, sun_data, np, brightness, iterations, frames,
                   sun_tried, sun_retry>>

\* loop: the METAR is not due
LoopMetarSkip ==
    /\ pc = "loop_metar"
    /\ ~MetarDue(now)
    /\ metar_tried' = FALSE
    /\ pc' = "loop_frame"
    /\ UNCHANGED <<clock, now, config, snapshot, sun_times, metar_locals, sun_data, np,
                   brightness, iterations, frames, sun_tried, sun_retry, metar_retry>>

\* loop: animate_frame(); time.sleep(frame_delay)
LoopFrame ==
    /\ pc = "loop_frame"
    /\ \E eased \in EasedPhases, flash \in BOOLEAN : animate_frame(eased, flash)
    /\ frames' = frames + 1
    /\ \E d \in SleepSeconds : clock' = clock + d
    /\ pc' = "loop_sun"
    /\ UNCHANGED <<now, config, snapshot, sun_times, metar_locals, sun_data, iterations,
                   sun_tried, metar_tried, sun_retry, metar_retry>>

Next ==
    \/ WifiUp
    \/ WifiDown
    \/ FlashRed
    \/ FlashOff
    \/ SyncTime
    \/ StartSun
    \/ StartMetar
    \/ LoopSunRefresh
    \/ LoopSunSkip
    \/ LoopMetarRefresh
    \/ LoopMetarSkip
    \/ LoopFrame

Spec == Init /\ [][Next]_vars


(* ---------------- the functions on their own ---------------- *)

\* bound: tokens in a report handed to a sub-parser
MaxTokens == 3

TokenLists(pool) == UNION {[1..n -> pool] : n \in 0..MaxTokens}

T_10SM == <<"1", "0", "S", "M">>

T_3_4SM == <<"3", "/", "4", "S", "M">>

T_1 == <<"1">>

T_1_2SM == <<"1", "/", "2", "S", "M">>

T_P6SM == <<"P", "6", "S", "M">>

T_M1_4SM == <<"M", "1", "/", "4", "S", "M">>

T_M0SM == <<"M", "0", "S", "M">>

T_XSM == <<"X", "S", "M">>

T_1_0SM == <<"1", "/", "0", "S", "M">>

T_KSLG == <<"K", "S", "L", "G">>

VisibilityTokens == {T_10SM, T_3_4SM, T_1, T_1_2SM, T_P6SM, T_M1_4SM, T_M0SM, T_XSM, T_1_0SM, T_KSLG}

T_BKN008 == <<"B", "K", "N", "0", "0", "8">>

T_OVC015 == <<"O", "V", "C", "0", "1", "5">>

T_VV002 == <<"V", "V", "0", "0", "2">>

T_BKN030CB == <<"B", "K", "N", "0", "3", "0", "C", "B">>

T_FEW010 == <<"F", "E", "W", "0", "1", "0">>

T_BKN___ == <<"B", "K", "N", "/", "/", "/">>

T_OVC100 == <<"O", "V", "C", "1", "0", "0">>

CeilingTokens == {T_BKN008, T_OVC015, T_VV002, T_BKN030CB, T_FEW010, T_BKN___, T_OVC100}

T_18012G20KT == <<"1", "8", "0", "1", "2", "G", "2", "0", "K", "T">>

T_09005KT == <<"0", "9", "0", "0", "5", "K", "T">>

T_VRB03KT == <<"V", "R", "B", "0", "3", "K", "T">>

T_G20KT == <<"G", "2", "0", "K", "T">>

T_180XXKT == <<"1", "8", "0", "X", "X", "K", "T">>

T_VRBG15KT == <<"V", "R", "B", "G", "1", "5", "K", "T">>

T_27015G == <<"2", "7", "0", "1", "5", "G", "2", "5">>

WindTokens == {T_18012G20KT, T_09005KT, T_VRB03KT, T_G20KT, T_180XXKT, T_VRBG15KT, T_27015G, T_KSLG}

IdleInit ==
    /\ clock = 0
    /\ USE_SUN_TIMES = TRUE
    /\ UTC_OFFSET_HOURS \in OffsetChoices
    /\ SnapshotInit
    /\ SunTimesInit
    /\ LoopInit
    /\ brightness = 0

InitParse ==
    /\ pc = "tokens"
    /\ metar \in TokenLists(VisibilityTokens) \cup TokenLists(CeilingTokens)
                   \cup TokenLists(WindTokens)
    /\ vis_sm = None
    /\ ceil_ft = None
    /\ IdleInit

\* vis_sm = parse_visibility_sm(tokens)
ParseVisibility ==
    /\ pc = "tokens"
    /\ vis_sm' = parse_visibility_sm(metar)
    /\ pc' = "visibility"
    /\ UNCHANGED <<clock, now, config, snapshot, sun_times, metar, ceil_ft, sun_data, np,
                   brightness, loop_state>>

\* ceil_ft = parse_ceiling_ft(tokens)
ParseCeiling ==
    /\ pc = "tokens"
    /\ ceil_ft' = parse_ceiling_ft(metar)
    /\ pc' = "ceiling"
    /\ UNCHANGED <<clock, now, config, snapshot, sun_times, metar, vis_sm, sun_data, np,
                   brightness, loop_state>>

\* sustained_wind_kt, gust_flag = parse_wind(tokens)
ParseWind ==
    /\ pc = "tokens"
    /\ sustained_wind_kt' = parse_wind(metar)[1]
    /\ has_gusts' = parse_wind(metar)[2]
    /\ pc' = "wind"
    /\ UNCHANGED <<clock, now, config, flight_category, has_lightning, last_metar_update,
                   sun_times, metar_locals, sun_data, np, brightness, loop_state>>

NextParse == ParseVisibility \/ ParseCeiling \/ ParseWind

SpecParse == InitParse /\ [][NextParse]_vars

CeilingSamples ==
    {None, <<0>>, <<400>>, <<499>>, <<500>>, <<900>>, <<999>>, <<1000>>, <<2000>>,
     <<3000>>, <<3001>>, <<3100>>, <<99900>>, <<100000>>}

VisibilitySamples ==
    {None, Rat(0, 1), Rat(1, 4), Rat(1, 2), Rat(99, 100), Rat(1, 1), Rat(3, 2),
     Rat(299, 100), Rat(3, 1), Rat(4, 1), Rat(5, 1), Rat(501, 100), Rat(6, 1),
     Rat(10, 1), Rat(15, 1)}

InitClassify ==
    /\ pc = "observation"
    /\ metar = None
    /\ ceil_ft \in CeilingSamples
    /\ vis_sm \in VisibilitySamples
    /\ IdleInit

\* cat = classify_flight_category(ceil_ft, vis_sm); flight_category = cat
Classify ==
    /\ pc = "observation"
    /\ flight_category' = classify_flight_category(ceil_ft, vis_sm)
    /\ pc' = "classified"
    /\ UNCHANGED <<clock, now, config, has_gusts, has_lightning, sustained_wind_kt,
                   last_metar_update, sun_times, metar_locals, sun_data, np, brightness,
                   loop_state>>

NextClassify == Classify

SpecClassify == InitClassify /\ [][NextClassify]_vars

\* RTC times of day (UTC seconds) and sun times (local seconds) tried
ClockSamples ==
    {0, 3599, 3600, 21599, 21600, 25200, 43200, 64800, 71999, 72000, 86399, 108000}

SunSamples == {0, 21600, 43200, 64800, 86399}

OffsetSamples == {-6, 0, 5}

InitBrightness ==
    /\ pc = "clock"
    /\ clock \in ClockSamples
    /\ USE_SUN_TIMES \in BOOLEAN
    /\ UTC_OFFSET_HOURS \in OffsetSamples
    /\ sunrise_sec_local \in SunSamples
    /\ sunset_sec_local \in SunSamples
    /\ last_sun_update = 0
    /\ SnapshotInit
    /\ MetarLocalsInit
    /\ LoopInit
    /\ brightness = 0

\* base_brightness = current_brightness()
Brightness ==
    /\ pc = "clock"
    /\ brightness' = current_brightness
    /\ pc' = "brightness"
    /\ UNCHANGED <<clock, now, config, snapshot, sun_times, metar_locals, sun_data, np,
                   loop_state>>

NextBrightness == Brightness

SpecBrightness == InitBrightness /\ [][NextBrightness]_vars


(* ---------------- properties of the main program (Spec) ---------------- *)

\* the step about to be taken, if any, is a call of update_metar_state()
MetarCall == pc = "start_metar" \/ (pc = "loop_metar" /\ MetarDue(now))

\* the step about to be taken, if any, is a call of update_sun_times() that fetches
SunCall == USE_SUN_TIMES /\ (pc = "start_sun" \/ (pc = "loop_sun" /\ SunDue(clock)))

\* the whole snapshot is the one parsed and classified from the report just fetched
SnapshotOf(m, t) ==
    /\ flight_category' = classify_flight_category(parse_ceiling_ft(m), parse_visibility_sm(m))
    /\ has_gusts' = parse_wind(m)[2]
    /\ has_lightning' = has_lightning_from_metar(m)
    /\ sustained_wind_kt' = parse_wind(m)[1]
    /\ last_metar_update' = t

\* C1: an update_metar_state() whose fetch fails leaves flight_category, has_gusts,
\* has_lightning, sustained_wind_kt and last_metar_update as they were; the snapshot
\* changes only in an update_metar_state() whose fetch succeeds, and then all of it
\* is the parse and classification of the fetched report.
C1_FailedFetchKeepsSnapshot ==
    [][/\ (MetarCall /\ metar' = None) => UNCHANGED snapshot
       /\ (snapshot' /= snapshot) =>
             (MetarCall /\ metar' /= None /\ SnapshotOf(metar', clock'))]_vars

\* a fetch has failed in the loop after an earlier one had filled the snapshot
C1_Witness ==
    /\ pc = "loop_frame"
    /\ metar_tried
    /\ metar = None
    /\ flight_category = "IFR"
    /\ has_gusts
    /\ last_metar_update > 0

\* C2, the state part: every pass of the loop begun has rendered its frame by the
\* time the next one begins.
C2_FramePerIteration ==
    /\ pc = "loop_sun" => frames = iterations
    /\ pc \in {"loop_metar", "loop_frame"} => frames + 1 = iterations

\* C2, the step part: a refresh that returns without a result leaves its timestamp;
\* a refresh that failed in the loop is tried again in the next pass; the loop
\* refreshes only when more than the interval has passed since the timestamp; the
\* frame step renders one frame whatever the refreshes did.
C2_Steps ==
    /\ (MetarCall /\ metar' = None) => last_metar_update' = last_metar_update
    /\ (SunCall /\ SunEarlyReturn(sun_data')) => last_sun_update' = last_sun_update
    /\ (pc = "loop_metar" /\ metar_retry) => metar_tried'
    /\ (pc = "loop_sun" /\ sun_retry) => sun_tried'
    /\ (pc = "loop_metar" /\ metar_tried') =>
          now - last_metar_update > UPDATE_INTERVAL_SECONDS
    /\ (pc = "loop_sun" /\ sun_tried') =>
          now' - last_sun_update > SUN_TIMES_REFRESH_SECONDS
    /\ (pc = "loop_frame") => (frames' = frames + 1 /\ pc' = "loop_sun")

WellFormedIso(iso) ==
    /\ contains(iso, T)
    /\ LET t == split1(iso, T)[2]
       IN /\ Len(t) >= 8
          /\ \A i \in {1, 2, 4, 5, 7, 8} : t[i] \in Digits
          /\ t[3] = ":" /\ t[6] = ":"

\* the refresh with this response failed: no response, no results, a missing field,
\* or a sunrise or sunset that cannot be parsed
SunRefreshFailed(data) ==
    \/ SunEarlyReturn(data)
    \/ ~WellFormedIso(data.sunrise)
    \/ ~WellFormedIso(data.sunset)

\* C5: once a refresh has populated the sun times, a refresh that fails (transport
\* error, no results, missing field, unparsable timestamp) leaves sunrise_sec_local
\* and sunset_sec_local at their previous values, never a default or zero-derived
\* one.  (The previous response, sun_data, was a good one: the times are populated.)
C5_FailedSunRefreshKeepsTimes ==
    [][(SunCall /\ ~SunRefreshFailed(sun_data) /\ SunRefreshFailed(sun_data')) =>
          UNCHANGED <<sunrise_sec_local, sunset_sec_local>>]_vars


(* ---------------- classification (SpecClassify) ---------------- *)

FlightCategories == {"LIFR", "IFR", "MVFR", "VFR"}

Rank(cat) ==
    CASE cat = "LIFR" -> 0 [] cat = "IFR" -> 1 [] cat = "MVFR" -> 2 [] cat = "VFR" -> 3

\* the ceiling and visibility compared, a missing one replaced as C3 says
CeilingOrUnlimited(c) == IF c = None THEN 99999 ELSE c[1]

VisibilityOrTen(v) == IF v = None THEN <<10, 1>> ELSE v

\* the category C3 states for (c, v)
StatedCategory(c, v) ==
    LET ceil == CeilingOrUnlimited(c)
        vis == VisibilityOrTen(v)
    IN IF ceil < 500 \/ vis[1] < vis[2] THEN "LIFR"
       ELSE IF ceil < 1000 \/ vis[1] < 3 * vis[2] THEN "IFR"
       ELSE IF ceil <= 3000 \/ vis[1] <= 5 * vis[2] THEN "MVFR"
       ELSE "VFR"

\* C3: with 10.0 SM for a missing visibility and a sentinel above every threshold
\* for a missing ceiling, the category is the first match of LIFR (ceiling < 500 or
\* visibility < 1), IFR (< 1000 or < 3), MVFR (<= 3000 or <= 5), else VFR; so
\* (None, None) is VFR, (400, None) LIFR, (900, None) IFR, (2000, None) MVFR and
\* (None, 0.5) LIFR.
C3_ClassifyOrder ==
    pc = "classified" =>
        /\ flight_category = StatedCategory(ceil_ft, vis_sm)
        /\ (ceil_ft = None /\ vis_sm = None) => flight_category = "VFR"
        /\ (ceil_ft = <<400>> /\ vis_sm = None) => flight_category = "LIFR"
        /\ (ceil_ft = <<900>> /\ vis_sm = None) => flight_category = "IFR"
        /\ (ceil_ft = <<2000>> /\ vis_sm = None) => flight_category = "MVFR"
        /\ (ceil_ft = None /\ vis_sm = <<1, 2>>) => flight_category = "LIFR"

\* a ceiling exactly on the MVFR bound, with the visibility above its own, was classified
C3_Witness ==
    /\ pc = "classified"
    /\ ceil_ft = <<3000>>
    /\ vis_sm = <<6, 1>>
    /\ flight_category = "MVFR"

\* ceiling a is no higher than ceiling b, None being unlimited
CeilingNoHigher(a, b) == b = None \/ (a /= None /\ a[1] <= b[1])

\* visibility a is no higher than visibility b, None being unlimited
VisibilityNoHigher(a, b) == b = None \/ (a /= None /\ a[1] * b[2] <= b[1] * a[2])

\* C4: classify_flight_category returns a flight category for every ceiling and
\* visibility, and an observation whose ceiling and visibility are both no higher
\* (None counting as unlimited) never gets a strictly better category.
C4_TotalAndMonotonic ==
    pc = "classified" =>
        /\ flight_category \in FlightCategories
        /\ \A c \in CeilingSamples, v \in VisibilitySamples :
              (CeilingNoHigher(c, ceil_ft) /\ VisibilityNoHigher(v, vis_sm)) =>
                  Rank(classify_flight_category(c, v)) <= Rank(flight_category)

\* an unlimited observation was classified VFR, and a worse one exists in the samples
C4_Witness ==
    /\ pc = "classified"
    /\ ceil_ft = None
    /\ vis_sm = None
    /\ flight_category = "VFR"
    /\ \E c \in CeilingSamples, v \in VisibilitySamples :
          /\ CeilingNoHigher(c, ceil_ft) /\ VisibilityNoHigher(v, vis_sm)
          /\ Rank(classify_flight_category(c, v)) < Rank(flight_category)

(* ---------------- day and night (SpecBrightness) ---------------- *)

\* the local hour, from the RTC's UTC hour and the offset
LocalHour == (((clock % 86400) \div 3600) + UTC_OFFSET_HOURS) % 24

\* the local time of day in seconds, t of C6
LocalSeconds == (clock + UTC_OFFSET_HOURS * 3600) % 86400

\* it is day by the rule C6 states
StatedDay ==
    IF USE_SUN_TIMES
    THEN IF sunrise_sec_local < sunset_sec_local
         THEN sunrise_sec_local <= LocalSeconds /\ LocalSeconds < sunset_sec_local
         ELSE LocalSeconds >= sunrise_sec_local \/ LocalSeconds < sunset_sec_local
    ELSE LocalHour \in 7..19

\* C6: current_brightness returns DAY_BRIGHTNESS or NIGHT_BRIGHTNESS and nothing
\* else; with sun times it is day iff sunrise <= t < sunset when sunrise < sunset,
\* and iff t >= sunrise or t < sunset otherwise (sunrise 21600, sunset 64800: noon is
\* day, midnight night; sunrise 64800, sunset 21600: midnight is day); in fixed-hours
\* mode it is day iff the local hour is in [7, 20).
C6_DayNight ==
    pc = "brightness" =>
        /\ brightness \in {DAY_BRIGHTNESS, NIGHT_BRIGHTNESS}
        /\ brightness = DAY_BRIGHTNESS <=> StatedDay
        /\ (USE_SUN_TIMES /\ sunrise_sec_local = 21600 /\ sunset_sec_local = 64800) =>
              /\ LocalSeconds = 43200 => brightness = DAY_BRIGHTNESS
              /\ LocalSeconds = 0 => brightness = NIGHT_BRIGHTNESS
        /\ (USE_SUN_TIMES /\ sunrise_sec_local = 64800 /\ sunset_sec_local = 21600
              /\ LocalSeconds = 0) => brightness = DAY_BRIGHTNESS

\* the inverted pair at local midnight gave day
C6_Witness ==
    /\ pc = "brightness"
    /\ USE_SUN_TIMES
    /\ sunrise_sec_local = 64800
    /\ sunset_sec_local = 21600
    /\ LocalSeconds = 0
    /\ brightness = DAY_BRIGHTNESS


(* ---------------- the sub-parsers (SpecParse) ---------------- *)

SetMin(S) == CHOOSE x \in S : \A y \in S : x <= y

\* the three characters after the first n are digits
ThreeDigitsAfter(tok, n) ==
    Len(tok) >= n + 3 /\ \A i \in (n + 1)..(n + 3) : tok[i] \in Digits

\* tok is a layer BKNhhh, OVChhh or VVhhh: the prefix, then the height hhh
IsLayer(tok) ==
    \/ (startswith(tok, BKN) \/ startswith(tok, OVC)) /\ ThreeDigitsAfter(tok, 3)
    \/ startswith(tok, VV) /\ ThreeDigitsAfter(tok, 2)

\* its height in feet, hhh * 100
LayerFeet(tok) ==
    LET n == IF startswith(tok, VV) THEN 2 ELSE 3
    IN NatVal(SubSeq(tok, n + 1, n + 3)) * 100

LayerHeights(tokens) == {LayerFeet(tokens[i]) : i \in {j \in 1..Len(tokens) : IsLayer(tokens[j])}}

\* C7: parse_ceiling_ft returns the lowest height, hhh * 100 feet, over the BKNhhh,
\* OVChhh and VVhhh layers among the tokens, whatever their order, and None exactly
\* when there is no such layer; [BKN008, OVC015] gives 800.
C7_LowestCeiling ==
    pc = "ceiling" =>
        /\ ceil_ft = IF LayerHeights(metar) = {} THEN None
                     ELSE <<SetMin(LayerHeights(metar))>>
        /\ metar = <<T_BKN008, T_OVC015>> => ceil_ft = <<800>>

SMPositions(tokens) == {i \in 1..Len(tokens) : contains(tokens[i], SM)}

\* the first token containing "SM", and the one before it ("" if it is the first)
FirstSM(tokens) == SetMin(SMPositions(tokens))

\* C8: when the first SM token is "P6SM", the visibility is 10.0.
C8_GreaterThanIsTen ==
    (pc = "visibility" /\ SMPositions(metar) /= {} /\ metar[FirstSM(metar)] = T_P6SM) =>
        vis_sm = <<10, 1>>

\* the number a digit string writes; an unparsable one contributes 0
NumberOrZero(s) == IF isdigit(s) THEN <<NatVal(s), 1>> ELSE <<0, 1>>

\* a/b for digit strings a and b, b not zero; an unparsable one contributes 0
FractionOrZeroStated(s) ==
    LET a == split1(s, <<"/">>)[1]
        b == split1(s, <<"/">>)[2]
    IN IF isdigit(a) /\ isdigit(b) /\ NatVal(b) /= 0
       THEN Rat(NatVal(a), NatVal(b)) ELSE <<0, 1>>

\* the value C9 states for the text of an SM token (its "SM" and any M dropped),
\* given the token before it
StatedValue(text, prev) ==
    IF contains(text, <<"/">>)
    THEN IF isdigit(prev)
         THEN RAdd(<<NatVal(prev), 1>>, FractionOrZeroStated(text))
         ELSE FractionOrZeroStated(text)
    ELSE NumberOrZero(text)

\* the visibility C9 states for the SM token at position i (not a P-prefixed one)
StatedVisibility(tokens, i) ==
    LET tok == tokens[i]
        text == SubSeq(tok, 1, Len(tok) - 2)
        prev == IF i > 1 THEN tokens[i - 1] ELSE <<>>
    IN IF Len(text) > 0 /\ text[1] = "M"
       THEN LET v == StatedValue(Tail(text), prev)
            IN IF v[1] <= 0 THEN <<1, 4>> ELSE v
       ELSE StatedValue(text, prev)

\* C9: parse_visibility_sm is None when no token contains "SM"; otherwise only the
\* first such token (and the token before it) decides: a plain number gives itself,
\* a fraction a/b gives a/b, or w + a/b after an all-digit token w, an M prefix gives
\* the value after it or 0.25 if that is <= 0, and an unparsable number counts 0.0;
\* "10SM" is 10, "3/4SM" 0.75, ["1", "1/2SM"] 1.5 and "M1/4SM" 0.25.
C9_FirstSMTokenDecides ==
    pc = "visibility" =>
        /\ SMPositions(metar) = {} => vis_sm = None
        /\ SMPositions(metar) /= {} =>
              LET i == FirstSM(metar)
              IN /\ vis_sm /= None
                 /\ vis_sm = parse_visibility_sm(SubSeq(metar, 1, i))
                 /\ ~startswith(metar[i], <<"P">>) => vis_sm = StatedVisibility(metar, i)
        /\ metar = <<T_10SM>> => vis_sm = <<10, 1>>
        /\ metar = <<T_3_4SM>> => vis_sm = <<3, 4>>
        /\ metar = <<T_1, T_1_2SM>> => vis_sm = <<3, 2>>
        /\ metar = <<T_M1_4SM>> => vis_sm = <<1, 4>>

\* a split whole number and fraction were read, with a later SM token ignored
C9_Witness ==
    /\ pc = "visibility"
    /\ metar = <<T_1, T_1_2SM, T_10SM>>
    /\ vis_sm = <<3, 2>>

\* tok decides the wind, as C10 states it
QualifiesForWind(tok) ==
    /\ Len(tok) >= 2 /\ tok[Len(tok) - 1] = "K" /\ tok[Len(tok)] = "T"
    /\ \/ \E i \in 1..Len(tok) : tok[i] = "G"
       \/ (Len(tok) >= 3 /\ \A i \in 1..3 : tok[i] \in Digits)
       \/ (Len(tok) >= 3 /\ tok[1] = "V" /\ tok[2] = "R" /\ tok[3] = "B")

WindPositions(tokens) == {i \in 1..Len(tokens) : QualifiesForWind(tokens[i])}

\* tok without its "KT" and without its three-character direction or "VRB"
WindRemainder(tok) == SubSeq(tok, 4, Len(tok) - 2)

\* the text of rem before its first "G", all of it when it has none
BeforeG(rem) ==
    LET g == {i \in 1..Len(rem) : rem[i] = "G"}
    IN IF g = {} THEN rem ELSE SubSeq(rem, 1, SetMin(g) - 1)

\* C10: parse_wind is (0, false) without a qualifying token (ends in "KT" and has a
\* "G", three leading digits or a leading "VRB"); otherwise the first such token
\* decides alone: with "KT" and the three leading characters dropped, the speed is
\* the integer before the first "G" (the whole remainder without one), 0 when that is
\* no integer, and has_gusts says whether the remainder has a "G"; "18012G20KT" is
\* (12, true), "09005KT" (5, false), "VRB03KT" (3, false).
C10_FirstWindTokenDecides ==
    pc = "wind" =>
        /\ WindPositions(metar) = {} => (sustained_wind_kt = 0 /\ ~has_gusts)
        /\ WindPositions(metar) /= {} =>
              LET rem == WindRemainder(metar[SetMin(WindPositions(metar))])
              IN /\ sustained_wind_kt = NumberOrZero(BeforeG(rem))[1]
                 /\ has_gusts <=> (\E i \in 1..Len(rem) : rem[i] = "G")
        /\ metar = <<T_18012G20KT>> => (sustained_wind_kt = 12 /\ has_gusts)
        /\ metar = <<T_09005KT>> => (sustained_wind_kt = 5 /\ ~has_gusts)
        /\ metar = <<T_VRB03KT>> => (sustained_wind_kt = 3 /\ ~has_gusts)

\* a gusting wind was read from the first wind token, a calmer one after it ignored
C10_Witness ==
    /\ pc = "wind"
    /\ metar = <<T_KSLG, T_18012G20KT, T_09005KT>>
    /\ sustained_wind_kt = 12
    /\ has_gusts


====
